---- MODULE Spec2Model ----
(***************************************************************************)
(* Model of the `db` click command group of flask_db_admin                 *)
(* (src/__init__.py): the schema bootstrap commands, the PostgreSQL        *)
(* dump/restore commands and the Alembic migration subcommands.            *)
(*                                                                         *)
(* One behaviour is one CLI process: Init is the configured application    *)
(* before a command is parsed, a command action runs the handler up to     *)
(* its blocking external call (ORM, subprocess, migration engine), and     *)
(* the return/raise actions of that external call finish the handler.      *)
(*                                                                         *)
(* Strings are TLA+ strings; file-system paths are sequences of tokens     *)
(* (path segments and the separator "/"), so that os.path.join is          *)
(* computed and not assumed.                                               *)
(***************************************************************************)
EXTENDS Integers, Sequences, FiniteSets, TLC

VARIABLES
    directory,    \* current_app.extensions['migrate'].directory
    config,       \* current_app.config (the PG_* keys)
    environ,      \* os.environ['PGPASSWORD'] (None when unset)
    pc,           \* position of the process
    argv,         \* the parsed command line of this process
    outcome,      \* how the command ended
    ormLog,       \* calls/returns/raises of db.create_all / db.drop_all
    procCalls,    \* subprocess.call invocations: argument list and inherited env
    engineCalls,  \* calls of alembic.command.*
    exitCode      \* <<exit code>> of the child process, <<>> before it exits

vars == <<directory, config, environ, pc, argv, outcome, ormLog, procCalls,
          engineCalls, exitCode>>

\* Python's None, for optional string values.
None == "<None>"

\* Longest `revisions` tuple given to `merge` (the argument is variadic).
MaxRevisions == 2

DEFAULT_DIR == <<"migrations">>
DEFAULT_DB_BACKUP_PATH == "db.pg_dump"
EXT_NAME == "migrate"

Sep == "/"
\* The path of a Config() built without a file.
NoPath == <<None>>

-----------------------------------------------------------------------------
(* Inputs *)

Directories == {DEFAULT_DIR, <<"db", Sep, "alembic", Sep>>, <<>>}
Hosts == {"db1", "localhost"}
Passwords == {"s3cret", "pw2"}
BinDirs == {None, "", "/usr/bin/"}
Locations == {None, "backup.dump"}
Answers == {"y", "n", "", "eof"}
ExitCodes == {0, 1}
Revs == {None, "-1", "ae1027a6acf"}
OptStr == {None, "v"}
Switch == {None, "--autogenerate", "--no-autogenerate"}
RevTuples == UNION {[1..n -> {"heads", "ae1027a6acf"}] : n \in 0..MaxRevisions}

-----------------------------------------------------------------------------
(* click parameter handling *)

\* A click option or argument with a default: the default when not given.
ClickDefault(given, default) == IF given = None THEN default ELSE given

\* A --flag/--no-flag boolean option.
ClickSwitch(given, on, default) == IF given = None THEN default ELSE given = on

\* click.confirm(text, default=False) on one line of input: an empty line
\* takes the default, the end of input (or an interrupt) raises Abort.
ClickConfirm(answer) ==
    CASE answer \in {"y", "yes"} -> "true"
      [] answer \in {"n", "no", ""} -> "false"
      [] OTHER -> "abort"

\* The parameters click declares for a command (its decorators).
ClickParams(cmd) ==
    CASE cmd = "init" -> {}
      [] cmd = "revision" -> {"message", "autogenerate", "sql", "head", "splice",
                               "branch_label", "version_path", "rev_id"}
      [] cmd = "merge" -> {"revisions", "message", "branch_label", "rev_id"}
      [] cmd = "upgrade" -> {"revision", "tag", "sql", "x_arg"}
      [] cmd = "downgrade" -> {"revision", "tag", "sql", "x_arg"}
      [] cmd = "show" -> {"revision"}
      [] cmd = "history" -> {"verbose", "rev_range"}
      [] cmd = "heads" -> {"resolve_dependencies", "verbose"}
      [] cmd = "branches" -> {"verbose"}
      [] cmd = "current" -> {"verbose"}
      [] cmd = "stamp" -> {"tag", "sql", "revision"}

\* The parameters of the callback function of a command (its def line).
CallbackSignature(cmd) ==
    CASE cmd = "init" -> {}
      [] cmd = "revision" -> {"message", "autogenerate", "sql", "head", "splice",
                               "branch_label", "version_path", "rev_id"}
      [] cmd = "merge" -> {"revisions", "message", "branch_label", "rev_id"}
      [] cmd = "upgrade" -> {"revision", "sql", "tag", "x_arg"}
      [] cmd = "downgrade" -> {"revision", "sql", "tag", "x_arg"}
      [] cmd = "show" -> {"revision"}
      [] cmd = "history" -> {"rev_range", "verbose"}
      [] cmd = "heads" -> {"verbose", "resolve_dependencies"}
      [] cmd = "branches" -> {"verbose"}
      [] cmd = "current" -> {"verbose", "head_only"}
      [] cmd = "stamp" -> {"revision", "sql", "tag"}

\* click calls callback(**params): Python binds the call only when every
\* parameter of the callback is supplied and no unknown keyword is passed.
Binds(cmd) == ClickParams(cmd) = CallbackSignature(cmd)

-----------------------------------------------------------------------------
(* Configuration adapter *)

\* os.path.join(a, p) for a relative p.
PathJoin(a, p) ==
    IF a = <<>> THEN p
    ELSE IF a[Len(a)] = Sep THEN a \o p
    ELSE a \o <<Sep>> \o p

\* alembic.config.Config(file_): no command-line options, nothing set.
NewConfig(file) ==
    [config_file_name |-> file, script_location |-> NoPath,
     has_cmd_opts |-> FALSE, x |-> <<>>]

SetScriptLocation(c, dir) == [c EXCEPT !.script_location = dir]

AppendX(c, x_arg) ==
    IF x_arg = None THEN c
    ELSE [c EXCEPT !.has_cmd_opts = TRUE, !.x = Append(c.x, x_arg)]

GetConfig(dir, x_arg) ==
    AppendX(SetScriptLocation(NewConfig(PathJoin(dir, <<"alembic.ini">>)), dir), x_arg)

\* Variant of InitConfig that forgets to name the configuration file.
InitConfigNoFile(dir) == SetScriptLocation(NewConfig(NoPath), dir)

\* The configuration `init` builds by hand.
InitConfig(dir) ==
    [SetScriptLocation(NewConfig(NoPath), dir)
        EXCEPT !.config_file_name = PathJoin(dir, <<"alembic.ini">>)]

-----------------------------------------------------------------------------
(* Pure parts of the handlers *)

\* Variant of DowngradeTarget without the SQL special case.
DowngradeTargetNoRewrite(revision, sql) == revision

\* Variant of DowngradeTarget that turns every SQL target into a range.
DowngradeTargetAnySql(revision, sql) ==
    IF sql THEN "head:" \o revision ELSE revision

DowngradeTarget(revision, sql) ==
    IF sql /\ revision = "-1" THEN "head:-1" ELSE revision

\* Variant of DumpArgs with the database name after the output file.
DumpArgsFileFirst(cfg, location) ==
    << cfg.PG_BIN_DIR \o "pg_dump",
       "--host=" \o cfg.PG_HOST,
       "--username=" \o cfg.PG_USERNAME,
       "--format=c",
       "--file=" \o location,
       cfg.PG_DB_NAME >>

DumpArgs(cfg, location) ==
    << cfg.PG_BIN_DIR \o "pg_dump",
       "--host=" \o cfg.PG_HOST,
       "--username=" \o cfg.PG_USERNAME,
       "--format=c",
       cfg.PG_DB_NAME,
       "--file=" \o location >>

\* Variant of RestoreArgs that does not pass --clean.
RestoreArgsNoClean(cfg, location) ==
    << cfg.PG_BIN_DIR \o "pg_restore",
       "--host=" \o cfg.PG_HOST,
       "--username=" \o cfg.PG_USERNAME,
       "--dbname=" \o cfg.PG_DB_NAME,
       location >>

RestoreArgs(cfg, location) ==
    << cfg.PG_BIN_DIR \o "pg_restore",
       "--host=" \o cfg.PG_HOST,
       "--username=" \o cfg.PG_USERNAME,
       "--dbname=" \o cfg.PG_DB_NAME,
       "--clean",
       location >>

-----------------------------------------------------------------------------
Init ==
    /\ directory \in Directories
    /\ config \in [PG_PASSWORD : Passwords, PG_HOST : Hosts,
                   PG_USERNAME : {"admin"}, PG_DB_NAME : {"app"},
                   PG_BIN_DIR : BinDirs]
    /\ environ \in {None, "stale"}
    /\ pc = "start"
    /\ argv = [cmd |-> None]
    /\ outcome = None
    /\ ormLog = <<>>
    /\ procCalls = <<>>
    /\ engineCalls = <<>>
    /\ exitCode = <<>>

App == <<directory, config>>

-----------------------------------------------------------------------------
(* Schema bootstrap commands *)

OrmCall(op) == [ev |-> "call", op |-> op]

CreateAll ==
    /\ pc = "start"
    /\ argv' = [cmd |-> "create_all"]
    /\ ormLog' = Append(ormLog, OrmCall("create_all"))
    /\ pc' = "in_orm"
    /\ UNCHANGED <<App, environ, outcome, procCalls, engineCalls, exitCode>>

\* Variant of DropAll without the confirmation option.
DropAllUngated(yes, answer) ==
    /\ pc = "start"
    /\ argv' = [cmd |-> "drop_all", yes |-> yes, answer |-> answer]
    /\ ormLog' = Append(ormLog, OrmCall("drop_all"))
    /\ pc' = "in_orm"
    /\ UNCHANGED <<App, environ, outcome, procCalls, engineCalls, exitCode>>

\* click.confirmation_option: --yes skips the prompt; anything but a
\* confirmation aborts before the callback runs.
DropAll(yes, answer) ==
    /\ pc = "start"
    /\ argv' = [cmd |-> "drop_all", yes |-> yes, answer |-> answer]
    /\ IF yes \/ ClickConfirm(answer) = "true"
       THEN /\ ormLog' = Append(ormLog, OrmCall("drop_all"))
            /\ pc' = "in_orm"
            /\ outcome' = outcome
       ELSE /\ ormLog' = ormLog
            /\ pc' = "done"
            /\ outcome' = "Abort"
    /\ UNCHANGED <<App, environ, procCalls, engineCalls, exitCode>>

\* Variant of ResetAll that creates before it drops.
ResetAllCreateFirst(answer) ==
    /\ pc = "start"
    /\ argv' = [cmd |-> "reset_all", answer |-> answer]
    /\ CASE ClickConfirm(answer) = "true" ->
              /\ ormLog' = Append(ormLog, OrmCall("create_all"))
              /\ pc' = "in_orm"
              /\ outcome' = outcome
         [] ClickConfirm(answer) = "false" ->
              /\ ormLog' = ormLog
              /\ pc' = "done"
              /\ outcome' = "ok"
         [] OTHER ->
              /\ ormLog' = ormLog
              /\ pc' = "done"
              /\ outcome' = "Abort"
    /\ UNCHANGED <<App, environ, procCalls, engineCalls, exitCode>>

ResetAll(answer) ==
    /\ pc = "start"
    /\ argv' = [cmd |-> "reset_all", answer |-> answer]
    /\ CASE ClickConfirm(answer) = "true" ->
              /\ ormLog' = Append(ormLog, OrmCall("drop_all"))
              /\ pc' = "in_orm"
              /\ outcome' = outcome
         [] ClickConfirm(answer) = "false" ->
              /\ ormLog' = ormLog
              /\ pc' = "done"
              /\ outcome' = "ok"
         [] OTHER ->
              /\ ormLog' = ormLog
              /\ pc' = "done"
              /\ outcome' = "Abort"
    /\ UNCHANGED <<App, environ, procCalls, engineCalls, exitCode>>

\* The pending ORM call returns; reset_all goes on to create_all after
\* its drop_all, every other handler is finished.
OrmReturn ==
    /\ pc = "in_orm"
    /\ LET op == ormLog[Len(ormLog)].op
           returned == Append(ormLog, [ev |-> "return", op |-> op])
       IN  IF argv.cmd = "reset_all" /\ op = "drop_all"
           THEN /\ ormLog' = Append(returned, OrmCall("create_all"))
                /\ pc' = "in_orm"
                /\ outcome' = outcome
           ELSE /\ ormLog' = returned
                /\ pc' = "done"
                /\ outcome' = "ok"
    /\ UNCHANGED <<App, environ, argv, procCalls, engineCalls, exitCode>>

\* The pending ORM call raises; no handler catches it.
OrmRaise ==
    /\ pc = "in_orm"
    /\ ormLog' = Append(ormLog, [ev |-> "raise", op |-> ormLog[Len(ormLog)].op])
    /\ pc' = "done"
    /\ outcome' = "raise"
    /\ UNCHANGED <<App, environ, argv, procCalls, engineCalls, exitCode>>

-----------------------------------------------------------------------------
(* Backup/restore commands *)

\* The child is started with a copy of os.environ as it is at the call.
Spawn(args, env) == [args |-> args, env |-> env]

\* Variant of Dump that starts the child before it sets PGPASSWORD.
DumpSpawnFirst(location) ==
    /\ pc = "start"
    /\ argv' = [cmd |-> "dump", location |-> location]
    /\ environ' = config.PG_PASSWORD
    /\ IF config.PG_BIN_DIR = None
       THEN /\ procCalls' = procCalls
            /\ pc' = "done"
            /\ outcome' = "TypeError"
       ELSE /\ procCalls' = Append(procCalls,
                   Spawn(DumpArgs(config, ClickDefault(location, DEFAULT_DB_BACKUP_PATH)),
                         environ))
            /\ pc' = "in_subprocess"
            /\ outcome' = outcome
    /\ UNCHANGED <<App, ormLog, engineCalls, exitCode>>

Dump(location) ==
    /\ pc = "start"
    /\ argv' = [cmd |-> "dump", location |-> location]
    /\ environ' = config.PG_PASSWORD
    /\ IF config.PG_BIN_DIR = None
       THEN /\ procCalls' = procCalls
            /\ pc' = "done"
            /\ outcome' = "TypeError"
       ELSE /\ procCalls' = Append(procCalls,
                   Spawn(DumpArgs(config, ClickDefault(location, DEFAULT_DB_BACKUP_PATH)),
                         environ'))
            /\ pc' = "in_subprocess"
            /\ outcome' = outcome
    /\ UNCHANGED <<App, ormLog, engineCalls, exitCode>>

Restore(location) ==
    /\ pc = "start"
    /\ argv' = [cmd |-> "restore", location |-> location]
    /\ environ' = config.PG_PASSWORD
    /\ IF config.PG_BIN_DIR = None
       THEN /\ procCalls' = procCalls
            /\ pc' = "done"
            /\ outcome' = "TypeError"
       ELSE /\ procCalls' = Append(procCalls,
                   Spawn(RestoreArgs(config, ClickDefault(location, DEFAULT_DB_BACKUP_PATH)),
                         environ'))
            /\ pc' = "in_subprocess"
            /\ outcome' = outcome
    /\ UNCHANGED <<App, ormLog, engineCalls, exitCode>>

\* Variant of ChildExit that checks the exit code (subprocess.check_call).
ChildExitChecked(code) ==
    /\ pc = "in_subprocess"
    /\ exitCode' = <<code>>
    /\ pc' = "done"
    /\ outcome' = IF code = 0 THEN "ok" ELSE "CalledProcessError"
    /\ UNCHANGED <<App, environ, argv, ormLog, procCalls, engineCalls>>

\* subprocess.call returns the child's exit code; the handler drops it.
ChildExit(code) ==
    /\ pc = "in_subprocess"
    /\ exitCode' = <<code>>
    /\ pc' = "done"
    /\ outcome' = "ok"
    /\ UNCHANGED <<App, environ, argv, ormLog, procCalls, engineCalls>>

\* subprocess.call raises when the binary cannot be executed.
SpawnError ==
    /\ pc = "in_subprocess"
    /\ pc' = "done"
    /\ outcome' = "OSError"
    /\ UNCHANGED <<App, environ, argv, ormLog, procCalls, engineCalls, exitCode>>

-----------------------------------------------------------------------------
(* Migration subcommands *)

\* click invokes the callback of `cmd` with the parsed parameters; the
\* callback builds its configuration and calls alembic.command.<fn>.
Invoke(cmd, a, fn, cfg, params) ==
    /\ pc = "start"
    /\ argv' = a
    /\ IF Binds(cmd)
       THEN /\ engineCalls' = Append(engineCalls,
                   [fn |-> fn, config |-> cfg, params |-> params])
            /\ pc' = "in_engine"
            /\ outcome' = outcome
       ELSE /\ engineCalls' = engineCalls
            /\ pc' = "done"
            /\ outcome' = "TypeError"
    /\ UNCHANGED <<App, environ, ormLog, procCalls, exitCode>>

InitCmd ==
    Invoke("init", [cmd |-> "init"], "init", InitConfig(directory),
           [directory |-> directory, template |-> "flask"])

Revision(message, autogenerate, sql, head, splice, branch_label, version_path, rev_id) ==
    Invoke("revision",
           [cmd |-> "revision", message |-> message, autogenerate |-> autogenerate,
            sql |-> sql, head |-> head, splice |-> splice,
            branch_label |-> branch_label, version_path |-> version_path,
            rev_id |-> rev_id],
           "revision", GetConfig(directory, None),
           [message |-> message,
            autogenerate |-> ClickSwitch(autogenerate, "--autogenerate", TRUE),
            sql |-> sql,
            head |-> ClickDefault(head, "head"),
            splice |-> splice,
            branch_label |-> branch_label,
            version_path |-> version_path,
            rev_id |-> rev_id])

Merge(revisions, message, branch_label, rev_id) ==
    Invoke("merge",
           [cmd |-> "merge", revisions |-> revisions, message |-> message,
            branch_label |-> branch_label, rev_id |-> rev_id],
           "merge", GetConfig(directory, None),
           [revisions |-> revisions, message |-> message,
            branch_label |-> branch_label, rev_id |-> rev_id])

Upgrade(revision, sql, tag, x_arg) ==
    Invoke("upgrade",
           [cmd |-> "upgrade", revision |-> revision, sql |-> sql, tag |-> tag,
            x_arg |-> x_arg],
           "upgrade", GetConfig(directory, x_arg),
           [revision |-> ClickDefault(revision, "head"), sql |-> sql, tag |-> tag])

Downgrade(revision, sql, tag, x_arg) ==
    Invoke("downgrade",
           [cmd |-> "downgrade", revision |-> revision, sql |-> sql, tag |-> tag,
            x_arg |-> x_arg],
           "downgrade", GetConfig(directory, x_arg),
           [revision |-> DowngradeTarget(ClickDefault(revision, "-1"), sql),
            sql |-> sql, tag |-> tag])

Show(revision) ==
    Invoke("show", [cmd |-> "show", revision |-> revision],
           "show", GetConfig(directory, None),
           [rev |-> ClickDefault(revision, "head")])

History(rev_range, verbose) ==
    Invoke("history", [cmd |-> "history", rev_range |-> rev_range, verbose |-> verbose],
           "history", GetConfig(directory, None),
           [rev_range |-> rev_range, verbose |-> verbose])

Heads(verbose, resolve_dependencies) ==
    Invoke("heads",
           [cmd |-> "heads", verbose |-> verbose,
            resolve_dependencies |-> resolve_dependencies],
           "heads", GetConfig(directory, None),
           [verbose |-> verbose, resolve_dependencies |-> resolve_dependencies])

Branches(verbose) ==
    Invoke("branches", [cmd |-> "branches", verbose |-> verbose],
           "branches", GetConfig(directory, None),
           [verbose |-> verbose])

Current(verbose) ==
    Invoke("current", [cmd |-> "current", verbose |-> verbose],
           "current", GetConfig(directory, None),
           [verbose |-> verbose])

Stamp(revision, sql, tag) ==
    Invoke("stamp",
           [cmd |-> "stamp", revision |-> revision, sql |-> sql, tag |-> tag],
           "stamp", GetConfig(directory, None),
           [revision |-> ClickDefault(revision, "head"), sql |-> sql, tag |-> tag])

\* The migration engine returns, or raises and the exception propagates.
EngineReturn ==
    /\ pc = "in_engine"
    /\ pc' = "done"
    /\ outcome' = "ok"
    /\ UNCHANGED <<App, environ, argv, ormLog, procCalls, engineCalls, exitCode>>

EngineRaise ==
    /\ pc = "in_engine"
    /\ pc' = "done"
    /\ outcome' = "raise"
    /\ UNCHANGED <<App, environ, argv, ormLog, procCalls, engineCalls, exitCode>>

-----------------------------------------------------------------------------
Next ==
    \/ CreateAll
    \/ \E yes \in BOOLEAN, answer \in Answers : DropAll(yes, answer)
    \/ \E answer \in Answers : ResetAll(answer)
    \/ OrmReturn
    \/ OrmRaise
    \/ \E location \in Locations : Dump(location)
    \/ \E location \in Locations : Restore(location)
    \/ \E code \in ExitCodes : ChildExit(code)
    \/ SpawnError
    \/ InitCmd
    \/ \E message \in OptStr, autogenerate \in Switch, sql \in BOOLEAN,
          head \in OptStr, splice \in BOOLEAN, branch_label \in OptStr,
          version_path \in OptStr, rev_id \in OptStr :
            Revision(message, autogenerate, sql, head, splice, branch_label,
                     version_path, rev_id)
    \/ \E revisions \in RevTuples, message \in OptStr, branch_label \in OptStr,
          rev_id \in OptStr : Merge(revisions, message, branch_label, rev_id)
    \/ \E revision \in Revs, sql \in BOOLEAN, tag \in OptStr, x_arg \in OptStr :
            Upgrade(revision, sql, tag, x_arg)
    \/ \E revision \in Revs, sql \in BOOLEAN, tag \in OptStr, x_arg \in OptStr :
            Downgrade(revision, sql, tag, x_arg)
    \/ \E revision \in Revs : Show(revision)
    \/ \E rev_range \in OptStr, verbose \in BOOLEAN : History(rev_range, verbose)
    \/ \E verbose \in BOOLEAN, resolve_dependencies \in BOOLEAN :
            Heads(verbose, resolve_dependencies)
    \/ \E verbose \in BOOLEAN : Branches(verbose)
    \/ \E verbose \in BOOLEAN : Current(verbose)
    \/ \E revision \in Revs, sql \in BOOLEAN, tag \in OptStr : Stamp(revision, sql, tag)
    \/ EngineReturn
    \/ EngineRaise

Spec == Init /\ [][Next]_vars

-----------------------------------------------------------------------------
(* Properties *)

MigrateCmds == {"init", "revision", "merge", "upgrade", "downgrade", "show",
                "history", "heads", "branches", "current", "stamp"}

EngineReached == pc \in {"in_engine", "done"}

\* C1: downgrade with sql and no revision on the command line hands the
\* migration engine the target "head:-1", whatever tag and x_arg are.
DowngradeSqlDefaultIsRange ==
    (argv.cmd = "downgrade" /\ argv.sql /\ argv.revision = None)
        => /\ Len(engineCalls) = 1
           /\ engineCalls[1].fn = "downgrade"
           /\ engineCalls[1].params.revision = "head:-1"
           /\ engineCalls[1].params.sql
           /\ engineCalls[1].params.tag = argv.tag

DowngradeSqlDefaultDone ==
    /\ argv.cmd = "downgrade" /\ argv.sql /\ argv.revision = None
    /\ argv.tag # None /\ argv.x_arg # None
    /\ pc = "done" /\ outcome = "ok"
    /\ engineCalls[1].params.revision = "head:-1"

\* C2 as stated: every revision given on the command line of downgrade,
\* an explicit "-1" included, reaches the migration engine unchanged, with
\* and without sql.
DowngradeExplicitUnchanged ==
    (argv.cmd = "downgrade" /\ argv.revision # None)
        => /\ Len(engineCalls) = 1
           /\ engineCalls[1].params.revision = argv.revision

\* C2 amended: a revision given on the command line of downgrade reaches
\* the migration engine unchanged, except "-1" together with sql, which
\* is rewritten to "head:-1" exactly like the default.
DowngradeExplicitUnchangedButSqlStep ==
    (argv.cmd = "downgrade" /\ argv.revision # None)
        => /\ Len(engineCalls) = 1
           /\ engineCalls[1].fn = "downgrade"
           /\ IF argv.sql /\ argv.revision = "-1"
              THEN engineCalls[1].params.revision = "head:-1"
              ELSE engineCalls[1].params.revision = argv.revision

DowngradeExplicitSqlDone ==
    /\ argv.cmd = "downgrade" /\ argv.sql /\ argv.revision = "ae1027a6acf"
    /\ pc = "done" /\ outcome = "ok"
    /\ engineCalls[1].params.revision = "ae1027a6acf"

\* The user answered the confirmation of drop-all or reset-all with no
\* (an empty line takes the default, which is no).
Declined ==
    \/ argv.cmd = "drop_all" /\ ~argv.yes /\ argv.answer \in {"n", ""}
    \/ argv.cmd = "reset_all" /\ argv.answer \in {"n", ""}

\* C3: when the user declines the confirmation of drop-all or reset-all,
\* neither drop_all nor create_all of the ORM is ever called.
DeclinedNeverTouchesOrm ==
    Declined => ormLog = <<>> /\ pc # "in_orm"

DropAllDeclinedDone ==
    /\ argv.cmd = "drop_all" /\ ~argv.yes /\ argv.answer = "n"
    /\ pc = "done" /\ outcome = "Abort" /\ ormLog = <<>>

OrmEvents(ev, op) == {i \in 1..Len(ormLog) : ormLog[i] = [ev |-> ev, op |-> op]}

\* C4: a confirmed reset-all calls drop_all exactly once and first, calls
\* create_all only after drop_all has returned, and when drop_all raises
\* the exception ends the command without any create_all.
ResetDropsBeforeCreate ==
    (argv.cmd = "reset_all" /\ argv.answer = "y")
        => /\ OrmEvents("call", "drop_all") = {1}
           /\ \A i \in OrmEvents("call", "create_all") :
                 \E j \in OrmEvents("return", "drop_all") : j < i
           /\ OrmEvents("raise", "drop_all") # {}
                 => /\ OrmEvents("call", "create_all") = {}
                    /\ pc = "done" /\ outcome = "raise"
           /\ (pc = "done" /\ outcome = "ok")
                 => ormLog = << [ev |-> "call", op |-> "drop_all"],
                                [ev |-> "return", op |-> "drop_all"],
                                [ev |-> "call", op |-> "create_all"],
                                [ev |-> "return", op |-> "create_all"] >>

ResetConfirmedDone ==
    /\ argv.cmd = "reset_all" /\ argv.answer = "y"
    /\ pc = "done" /\ outcome = "ok" /\ Len(ormLog) = 4

\* The -l/--location value the command works with.
LocationUsed == IF argv.location = None THEN "db.pg_dump" ELSE argv.location

\* C5 as stated: after the binary, the argument list of pg dump holds the
\* host, the username, the database name and the output path, and no
\* other argument.
DumpArgsOnlyFour ==
    (argv.cmd = "dump" /\ procCalls # <<>>)
        => procCalls[1].args =
             << config.PG_BIN_DIR \o "pg_dump",
                "--host=" \o config.PG_HOST,
                "--username=" \o config.PG_USERNAME,
                config.PG_DB_NAME,
                "--file=" \o LocationUsed >>

\* C5 amended: after the binary, the argument list of pg dump holds the
\* host, the username, the constant --format=c, the database name and the
\* output path, in this order, and no other argument.
DumpArgsFourAndFormat ==
    (argv.cmd = "dump" /\ procCalls # <<>>)
        => /\ Len(procCalls) = 1
           /\ procCalls[1].args =
                << config.PG_BIN_DIR \o "pg_dump",
                   "--host=" \o config.PG_HOST,
                   "--username=" \o config.PG_USERNAME,
                   "--format=c",
                   config.PG_DB_NAME,
                   "--file=" \o LocationUsed >>

DumpStarted ==
    /\ argv.cmd = "dump" /\ argv.location = "backup.dump"
    /\ pc = "in_subprocess" /\ Len(procCalls) = 1
    /\ procCalls[1].args[6] = "--file=backup.dump"

\* C6: pg restore hands the subprocess exactly PG_BIN_DIR + pg_restore,
\* --host=H, --username=U, --dbname=D, --clean and the location, which is
\* db.pg_dump when none is given.
RestoreArgsExact ==
    (argv.cmd = "restore" /\ procCalls # <<>>)
        => /\ Len(procCalls) = 1
           /\ procCalls[1].args =
                << config.PG_BIN_DIR \o "pg_restore",
                   "--host=" \o config.PG_HOST,
                   "--username=" \o config.PG_USERNAME,
                   "--dbname=" \o config.PG_DB_NAME,
                   "--clean",
                   LocationUsed >>

RestoreExample ==
    /\ argv.cmd = "restore" /\ argv.location = "backup.dump"
    /\ config.PG_HOST = "db1" /\ config.PG_BIN_DIR = "/usr/bin/"
    /\ pc = "done"
    /\ procCalls[1].args = << "/usr/bin/pg_restore", "--host=db1", "--username=admin",
                              "--dbname=app", "--clean", "backup.dump" >>

\* C7: every migration subcommand reaches the same-named function of the
\* migration engine exactly once; `current` reaches it with the verbose
\* value given.
EverySubcommandReachesEngine ==
    (argv.cmd \in MigrateCmds /\ EngineReached)
        => /\ Len(engineCalls) = 1
           /\ engineCalls[1].fn = argv.cmd
           /\ argv.cmd = "current" => engineCalls[1].params.verbose = argv.verbose

\* C8: the child of pg dump and pg restore is only ever started with
\* PGPASSWORD equal to the configured PG_PASSWORD.
PasswordSetBeforeSpawn ==
    /\ \A i \in 1..Len(procCalls) : procCalls[i].env = config.PG_PASSWORD
    /\ pc = "in_subprocess" => environ = config.PG_PASSWORD

DumpChildRunning ==
    /\ argv.cmd = "dump" /\ pc = "in_subprocess"
    /\ procCalls[1].env = config.PG_PASSWORD

\* C9: pg dump and pg restore start the binary at most once, and once the
\* child has exited, with whatever exit code, the command is complete
\* without an exception; it is not complete before the child has exited.
ExitCodeIgnored ==
    argv.cmd \in {"dump", "restore"}
        => /\ Len(procCalls) <= 1
           /\ exitCode # <<>>
                 => pc = "done" /\ outcome = "ok" /\ Len(procCalls) = 1
           /\ outcome = "ok" => exitCode # <<>> /\ Len(procCalls) = 1

RestoreChildFailed ==
    /\ argv.cmd = "restore" /\ exitCode = <<1>>
    /\ pc = "done" /\ outcome = "ok"

\* C10: every configuration object handed to the migration engine has
\* script_location equal to the registered directory and its file name
\* equal to that directory joined with alembic.ini, x_arg or not.
ScriptLocationIsDirectory ==
    \A i \in 1..Len(engineCalls) :
        /\ engineCalls[i].config.script_location = directory
        /\ engineCalls[i].config.config_file_name = PathJoin(directory, <<"alembic.ini">>)

InitReachedEngine ==
    /\ argv.cmd = "init" /\ pc = "in_engine"
    /\ directory = DEFAULT_DIR
    /\ engineCalls[1].config.config_file_name = <<"migrations", "/", "alembic.ini">>

====
